---- MODULE Spec2Model ----
(***************************************************************************)
(* Live scoreboard module (src/src/problem6/README.md): action-signature   *)
(* validation with replay protection, the per-user rate limiter, the Redis *)
(* sorted-set leaderboard and the LeaderboardManager broadcast.            *)
(*                                                                         *)
(* Redis is modelled by what its commands do: every command is one atomic  *)
(* step, every `await` between two commands is a point where other         *)
(* requests may run.  Keys with a TTL disappear when the clock reaches     *)
(* their expiry time.  Time is in milliseconds.                            *)
(*                                                                         *)
(* Resources REST API (src/src/problem5): the Express handlers of          *)
(* /api/v1/resources over the SQLite table resources (SpecResource).       *)
(***************************************************************************)
EXTENDS Integers, Sequences, FiniteSets, TLC

(***************************************************************************)
(* Program constants                                                       *)
(***************************************************************************)
ACTION_EXPIRATION_MS == 600000
USED_ACTION_TTL == 3600
RATE_LIMIT_WINDOW == 60
RATE_LIMIT_MAX_REQUESTS == 10
TOP_TEN == 10
\* "retryAfter" of the 429 response
RETRY_AFTER == 60

(***************************************************************************)
(* Bounds of the model                                                     *)
(***************************************************************************)
\* concurrent requests (validation / upsert pipelines)
NProcs == 2
\* connected WebSocket clients
NSockets == 2
\* users with a score in the sorted set initially; one more user has none
NRanked == 12
\* requests one user sends to the rate limiter
MaxRequests == 12

Procs == 1..NProcs
Sockets == 1..NSockets
\* Users are numbered in the lexicographic order of their userId strings, which
\* is the order Redis uses between members of equal score.
Users == 1..(NRanked + 1)
\* the users that submit actions: the two lowest ranked and the unranked one
ActiveUsers == {u \in Users : u >= NRanked - 1}

SecretKey == "secret_key"

(***************************************************************************)
(* JavaScript values that flow through the rank comparison                 *)
(***************************************************************************)
JsNum(n) == [tag |-> "number", n |-> n]
JsNull == [tag |-> "null", n |-> 0]
JsStr(s) == [tag |-> "string", n |-> 0, s |-> s]

\* ToNumber: null is 0, a non-numeric string is NaN
JsIsNaN(v) == v.tag = "string"
JsToNumber(v) == IF v.tag = "number" THEN v.n ELSE 0

\* a <= b of JavaScript: false when either side is NaN
JsLeMutNaNIsZero(a, b) == JsToNumber(a) <= JsToNumber(b)
JsLe(a, b) == ~JsIsNaN(a) /\ ~JsIsNaN(b) /\ JsToNumber(a) <= JsToNumber(b)

(***************************************************************************)
(* Decimal strings: Redis replies with scores as strings, the code parses  *)
(* them with parseInt.  A string of digits is a sequence of digits.        *)
(***************************************************************************)
RECURSIVE ToDigits(_)
ToDigits(n) == IF n < 10 THEN <<n>> ELSE Append(ToDigits(n \div 10), n % 10)

RECURSIVE ParseDigits(_, _)
ParseDigits(ds, acc) ==
    IF ds = <<>> THEN acc ELSE ParseDigits(Tail(ds), acc * 10 + Head(ds))

\* Redis formats a score; scores here are non-negative integers
FormatScore(n) == ToDigits(n)
parseInt(ds) == ParseDigits(ds, 0)

(***************************************************************************)
(* Redis sorted set `leaderboard:global`: a function member -> score.      *)
(* Members of equal score are ordered by member, ZREV* reverses the order. *)
(***************************************************************************)
ZScore(zset, m) == IF m \in DOMAIN zset THEN zset[m] ELSE 0

\* ZINCRBY key incr member: one atomic read-modify-write, creates the member
ZIncrByMutSubtract(zset, incr, m) ==
    [x \in DOMAIN zset \cup {m} |-> IF x = m THEN ZScore(zset, m) - incr ELSE zset[x]]
ZIncrByMutOverwrite(zset, incr, m) ==
    [x \in DOMAIN zset \cup {m} |-> IF x = m THEN incr ELSE zset[x]]
ZIncrBy(zset, incr, m) ==
    [x \in DOMAIN zset \cup {m} |-> IF x = m THEN ZScore(zset, m) + incr ELSE zset[x]]

\* a is before b in the reversed order: higher score, then greater member
ZRevBefore(zset, a, b) ==
    zset[a] > zset[b] \/ (zset[a] = zset[b] /\ a > b)

\* ZREVRANK key member: 0-based index in the reversed order, null if absent
ZRevRank(zset, m) ==
    IF m \in DOMAIN zset
    THEN JsNum(Cardinality({x \in DOMAIN zset : ZRevBefore(zset, x, m)}))
    ELSE JsNull

\* the members in the reversed order, the highest first
RECURSIVE ZRevOrder(_, _)
ZRevOrder(zset, members) ==
    IF members = {} THEN <<>>
    ELSE LET first == CHOOSE a \in members :
                          \A b \in members : a = b \/ ZRevBefore(zset, a, b)
         IN  <<first>> \o ZRevOrder(zset, members \ {first})

\* ZREVRANGE key start stop WITHSCORES: indexes are 0-based and inclusive, a
\* negative index counts from the end (-1 is the last element), an index past
\* the end is cut to the last element; the reply is the flat array
\* member, score, member, score, ...
ZRevRangeIndex(n, i) == IF i < 0 THEN n + i ELSE i
ZRevRangeWithScores(zset, start, stop) ==
    LET order == ZRevOrder(zset, DOMAIN zset)
        n == Len(order)
        s0 == ZRevRangeIndex(n, start)
        s == IF s0 < 0 THEN 0 ELSE s0
        e0 == ZRevRangeIndex(n, stop)
        e == IF e0 >= n THEN n - 1 ELSE e0
        cnt == IF s > e \/ s >= n THEN 0 ELSE e - s + 1
    IN  [k \in 1..(2 * cnt) |->
            LET m == order[s + 1 + ((k - 1) \div 2)]
            IN  IF k % 2 = 1 THEN m ELSE FormatScore(zset[m])]

(***************************************************************************)
(* Redis keys with a TTL: a function key -> [val, expireAt]; expireAt = -1 *)
(* is a key without TTL.  A key whose expiry time has come does not exist. *)
(***************************************************************************)
NoTTL == -1

Alive(keys, k, t) ==
    k \in DOMAIN keys /\ (keys[k].expireAt = NoTTL \/ t < keys[k].expireAt)

\* EXISTS key
Exists(keys, k, t) == Alive(keys, k, t)

\* SETEX key seconds value
SetEx(keys, k, seconds, val, t) ==
    [x \in DOMAIN keys \cup {k} |->
        IF x = k THEN [val |-> val, expireAt |-> t + seconds * 1000] ELSE keys[x]]

\* INCR key: an absent key counts from 0 and gets no TTL
IncrValue(keys, k, t) == IF Alive(keys, k, t) THEN keys[k].val + 1 ELSE 1
IncrMutRefreshesTTL(keys, k, t) ==
    [x \in DOMAIN keys \cup {k} |->
        IF x = k
        THEN [val |-> IncrValue(keys, k, t),
              expireAt |-> t + RATE_LIMIT_WINDOW * 1000]
        ELSE keys[x]]
Incr(keys, k, t) ==
    [x \in DOMAIN keys \cup {k} |->
        IF x = k
        THEN [val |-> IncrValue(keys, k, t),
              expireAt |-> IF Alive(keys, k, t) THEN keys[k].expireAt ELSE NoTTL]
        ELSE keys[x]]

\* PTTL key: the time the key has left, -1 for a key without TTL, -2 if absent
PTtl(keys, k, t) ==
    IF ~Alive(keys, k, t) THEN -2
    ELSE IF keys[k].expireAt = NoTTL THEN -1
    ELSE keys[k].expireAt - t

\* EXPIRE key seconds: no effect on an absent key
Expire(keys, k, seconds, t) ==
    IF Alive(keys, k, t)
    THEN [keys EXCEPT ![k].expireAt = t + seconds * 1000]
    ELSE keys

(***************************************************************************)
(* Action tokens (POST /actions/initialize) and their signature            *)
(***************************************************************************)
ActionTypes == {"COMPLETE_QUEST", "DEFEAT_BOSS"}

\* the server-only scoring table: the score an action type is worth
ScoreTable(actionType) == IF actionType = "COMPLETE_QUEST" THEN 100 ELSE 200

\* userId strings have a fixed width, so their order is the order of the numbers
UserIdStr(u) == "user-" \o (IF u < 10 THEN "0" ELSE "") \o ToString(u)

\* HMAC_SHA256 as an ideal MAC: the tag determines the key and the message
HMAC_SHA256(key, message) == <<key, message>>

\* signature over actionId + userId + actionType + timestamp (string concatenation)
SignatureMutNoActionType(actionId, userId, actionType, timestamp) ==
    HMAC_SHA256(SecretKey, actionId \o UserIdStr(userId) \o ToString(timestamp))
Signature(actionId, userId, actionType, timestamp) ==
    HMAC_SHA256(SecretKey,
                actionId \o UserIdStr(userId) \o actionType \o ToString(timestamp))

\* the token the server hands out for an action started at issuedAt
InitializeAction(actionId, userId, actionType, issuedAt) ==
    [actionId |-> actionId, userId |-> userId, actionType |-> actionType,
     timestamp |-> issuedAt,
     signature |-> Signature(actionId, userId, actionType, issuedAt),
     expiresAt |-> issuedAt + ACTION_EXPIRATION_MS,
     expectedScore |-> ScoreTable(actionType)]

\* what a client can send for a token it holds: the request as the action
\* was started, or one with a field altered
Variants == {"genuine", "forged", "late", "other"}
SubmitRequest(tok, variant) ==
    [userId |-> IF variant = "other"
                THEN CHOOSE u \in ActiveUsers : u /= tok.userId
                ELSE tok.userId,
     actionId |-> tok.actionId,
     actionType |-> IF variant = "retyped"
                    THEN CHOOSE ty \in ActionTypes : ty /= tok.actionType
                    ELSE tok.actionType,
     metadata |-> IF variant = "metadata" THEN "difficulty:hard" ELSE "questId:quest-123",
     timestamp |-> IF variant = "late"
                   THEN tok.timestamp + ACTION_EXPIRATION_MS
                   ELSE tok.timestamp,
     signature |-> IF variant = "forged"
                   THEN HMAC_SHA256("guess", tok.actionId)
                   ELSE tok.signature]

(***************************************************************************)
(* Validation (Action Signature Verification)                              *)
(***************************************************************************)
verifySignatureMutAccepts(submittedSignature, expectedSignature) == TRUE
verifySignature(submittedSignature, expectedSignature) ==
    submittedSignature = expectedSignature

isValidSignature(r) ==
    verifySignature(r.signature,
                    Signature(r.actionId, r.userId, r.actionType, r.timestamp))

isNotExpiredMutSwapped(currentTime, timestamp) ==
    (timestamp - currentTime) < ACTION_EXPIRATION_MS
isNotExpired(currentTime, timestamp) ==
    (currentTime - timestamp) < ACTION_EXPIRATION_MS

ActionKey(actionId) == "action:" \o actionId

isNotUsed(keys, actionId, t) == ~Exists(keys, ActionKey(actionId), t)

\* if (isValidSignature && isNotExpired && isNotUsed)
ValidationPassesMutAlways(sigOk, notExpired, notUsed) == TRUE
ValidationPassesMutIgnoreUsed(sigOk, notExpired, notUsed) == sigOk /\ notExpired
ValidationPasses(sigOk, notExpired, notUsed) == sigOk /\ notExpired /\ notUsed

\* the error a failed validation reports: the first failing check, in the
\* order signature, expiry, replay
ValidationResult(sigOk, notExpired, notUsed) ==
    IF ~sigOk THEN "INVALID_SIGNATURE"
    ELSE IF ~notExpired THEN "EXPIRED_ACTION"
    ELSE IF ~notUsed THEN "REPLAYED_ACTION"
    ELSE "OK"

(***************************************************************************)
(* Leaderboard reads                                                       *)
(***************************************************************************)
\* getLeaderboard(limit): ZREVRANGE 0 limit-1 WITHSCORES, then the formatting
\* loop over the flat reply, i = 0, 2, 4, ...
FormatLeaderboard(reply) ==
    [j \in 1..((Len(reply) + 1) \div 2) |->
        LET i == 2 * (j - 1)
        IN  [userId |-> reply[i + 1], score |-> parseInt(reply[i + 2]),
             rank |-> (i \div 2) + 1]]

getLeaderboard(zset, limit) ==
    FormatLeaderboard(ZRevRangeWithScores(zset, 0, limit - 1))

\* newRank of updateUserScore: rank !== null ? rank + 1 : null
NewRank(zset, m) ==
    LET rank == ZRevRank(zset, m)
    IN  IF rank /= JsNull THEN JsNum(rank.n + 1) ELSE JsNull

\* the rank a user holds before an upsert; "unranked" without a record
PreviousRank(zset, m) ==
    IF m \in DOMAIN zset THEN NewRank(zset, m) ELSE JsStr("unranked")

\* LeaderboardManager.checkTopTenChanged
checkTopTenChangedMutAnd(scoreData) ==
    JsLe(scoreData.newRank, JsNum(TOP_TEN))
        /\ JsLe(scoreData.previousRank, JsNum(TOP_TEN))
checkTopTenChanged(scoreData) ==
    JsLe(scoreData.newRank, JsNum(TOP_TEN))
        \/ JsLe(scoreData.previousRank, JsNum(TOP_TEN))

RateKey(userId) == "rate_limit:" \o UserIdStr(userId)

\* if (current > 10) throw new RateLimitError()
RateLimitExceeded(current) == current > RATE_LIMIT_MAX_REQUESTS

\* the 429 response that a RateLimitError becomes; the error is constructed
\* without arguments, so the response carries the documented retryAfter
RateLimitError ==
    [error |-> "RATE_LIMIT_EXCEEDED", retryAfter |-> RETRY_AFTER]

(***************************************************************************)
(* State                                                                   *)
(***************************************************************************)
VARIABLES
    now,           \* the clock, in ms
    issued,        \* the action tokens the server has handed out
    leaderboard,   \* Redis sorted set leaderboard:global
    usedActions,   \* Redis keys action:<actionId>
    rateLimit,     \* Redis keys rate_limit:<userId>
    req,           \* the requests in progress: position and local variables
    transactions,  \* the score changes applied, in commit order (audit log)
    connected,     \* the connected sockets
    closed,        \* the sockets that have disconnected
    room,          \* the sockets in room 'leaderboard'
    left,          \* the sockets whose last room event was leave:leaderboard
    inbox,         \* per socket, the events it has received, in order
    emitted,       \* the events emitted to the room, in order
    rateLog,       \* the rate limiter's decisions, in order
    requests,      \* the number of requests sent to the rate limiter
    resources,     \* SQLite table resources: the rows by id
    sqliteSequence,\* the largest id the table has handed out (AUTOINCREMENT)
    calls,         \* the HTTP requests to /api/v1/resources in progress
    removed,       \* the ids whose row a DELETE request has removed
    arg,           \* the argument n that sum_to_n_a, _b and _c are called with
    callA,         \* the call of sum_to_n_a: its return value, once made
    callB,         \* the call of sum_to_n_b: the loop's i and sum, its return
    callC          \* the call of sum_to_n_c: the frames of the recursion

vars == <<now, issued, leaderboard, usedActions, rateLimit, req, transactions,
          connected, closed, room, left, inbox, emitted, rateLog, requests,
          resources, sqliteSequence, calls, removed,
          arg, callA, callB, callC>>

socketVars == <<connected, closed, room, left, inbox, emitted>>
rateVars == <<rateLimit, rateLog, requests>>
resourceVars == <<resources, sqliteSequence, calls, removed>>
sumVars == <<arg, callA, callB, callC>>

\* the sorted set the service starts with: users 1..NRanked, user 1 on top
InitialLeaderboard == [u \in 1..NRanked |-> (NRanked + 1 - u) * 100]

NoKeys == [k \in {} |-> 0]

Idle ==
    [pc |-> "idle", userId |-> 0, actionId |-> "", actionType |-> "",
     metadata |-> "", timestamp |-> 0, signature |-> <<>>, ret |-> "",
     arrivedAt |-> 0, at |-> 0, result |-> "", scoreToAdd |-> 0, seq |-> 0,
     newScore |-> 0, newRank |-> JsNull, previousRank |-> JsNull,
     rankAfter |-> JsNull,
     topTenChanged |-> FALSE, snapshot |-> <<>>, current |-> 0,
     topMoved |-> FALSE]

InitCommon ==
    /\ now = 0
    /\ leaderboard = InitialLeaderboard
    /\ usedActions = NoKeys
    /\ req = [p \in Procs |-> Idle]
    /\ transactions = <<>>
    /\ connected = {}
    /\ closed = {}
    /\ room = {}
    /\ left = {}
    /\ inbox = [s \in Sockets |-> <<>>]
    /\ emitted = <<>>
    /\ rateLog = NoKeys
    /\ requests = 0

\* JSON values of the resources API: a text is a sequence of characters;
\* undefined (a key that is absent) and null are no texts
Undefined == <<"undefined">>
Null == <<"null">>
Active == <<"a", "c", "t", "i", "v", "e">>

\* null where a row is expected
NullRow ==
    [id |-> 0, name |-> Null, description |-> Null, category |-> Null,
     status |-> Null, created_at |-> 0, updated_at |-> 0]

\* a request body or query without keys
NoFields ==
    [name |-> Undefined, description |-> Undefined, category |-> Undefined,
     status |-> Undefined]

\* a response body: keys is the set of keys that the JSON object has
NoResponse ==
    [keys |-> {}, success |-> FALSE, error |-> "", message |-> "",
     data |-> NullRow, count |-> 0]

\* no request has been sent to the resources API, whose table is empty
NoCall ==
    [pc |-> "idle", method |-> "", param |-> <<>>, id |-> 0, body |-> NoFields,
     query |-> NoFields, status |-> 0, response |-> NoResponse]
\* no call of sum_to_n_a, sum_to_n_b or sum_to_n_c is made
NotCalled == [pc |-> "idle", i |-> 0, sum |-> 0, ret |-> 0]
InitNoSum ==
    /\ arg = 0
    /\ callA = NotCalled
    /\ callB = NotCalled
    /\ callC = <<>>

InitNoApi ==
    /\ resources = <<>>
    /\ sqliteSequence = 0
    /\ calls = [p \in Procs |-> NoCall]
    /\ removed = {}

\* a request slot is taken in order of the slot numbers
Free(p) == req[p].pc = "idle" /\ \A q \in Procs : q < p => req[q].pc /= "idle"

(***************************************************************************)
(* POST /scores/submit: validation, award, mark as used                    *)
(***************************************************************************)
\* the times at which the clock is observed by the validation
ValidationTimes ==
    {ACTION_EXPIRATION_MS - 1, ACTION_EXPIRATION_MS, ACTION_EXPIRATION_MS + 1,
     USED_ACTION_TTL * 1000 + ACTION_EXPIRATION_MS}

Tick ==
    /\ \E t \in ValidationTimes : t > now /\ now' = t
    /\ UNCHANGED <<issued, leaderboard, usedActions, req, transactions, socketVars, rateVars, resourceVars, sumVars>>

\* a client sends a token it holds, as issued or altered
Submit(p) ==
    /\ Free(p)
    /\ \E tok \in issued, variant \in Variants :
          LET r == SubmitRequest(tok, variant)
          IN  req' = [req EXCEPT ![p] =
                        [Idle EXCEPT !.pc = "validate", !.userId = r.userId,
                                     !.actionId = r.actionId,
                                     !.actionType = r.actionType,
                                     !.timestamp = r.timestamp,
                                     !.signature = r.signature,
                                     !.ret = "mark"]]
    /\ UNCHANGED <<now, issued, leaderboard, usedActions, transactions, socketVars, rateVars, resourceVars, sumVars>>

\* the three checks; the read of action:<actionId> is the last of them
Validate(p) ==
    /\ req[p].pc = "validate"
    /\ LET r == req[p]
           sigOk == isValidSignature(r)
           notExpired == isNotExpired(now, r.timestamp)
           notUsed == isNotUsed(usedActions, r.actionId, now)
           ok == ValidationPasses(sigOk, notExpired, notUsed)
       IN  req' = [req EXCEPT ![p].at = now,
                              ![p].result = ValidationResult(sigOk, notExpired, notUsed),
                              ![p].scoreToAdd = IF ok THEN ScoreTable(r.actionType) ELSE 0,
                              ![p].pc = IF ok THEN "award" ELSE "done"]
    /\ UNCHANGED <<now, issued, leaderboard, usedActions, transactions, socketVars, rateVars, resourceVars, sumVars>>

\* updateUserScore, first command: ZINCRBY.  The score change is logged.
\* rankAfter and topMoved record what the ZINCRBY did to the ranking.
Award(p) ==
    /\ req[p].pc = "award"
    /\ LET r == req[p]
           after == ZIncrBy(leaderboard, r.scoreToAdd, r.userId)
           newScore == parseInt(FormatScore(after[r.userId]))
       IN  /\ leaderboard' = after
           /\ transactions' = Append(transactions,
                  [userId |-> r.userId, actionId |-> r.actionId,
                   scoreBefore |-> ZScore(leaderboard, r.userId),
                   scoreAfter |-> newScore,
                   scoreAwarded |-> r.scoreToAdd, by |-> p])
           /\ req' = [req EXCEPT ![p].newScore = newScore,
                                 ![p].previousRank = PreviousRank(leaderboard, r.userId),
                                 ![p].seq = Len(transactions) + 1,
                                 ![p].rankAfter = NewRank(after, r.userId),
                                 ![p].topMoved =
                                     getLeaderboard(leaderboard, TOP_TEN)
                                         /= getLeaderboard(after, TOP_TEN),
                                 ![p].pc = "rank"]
    /\ UNCHANGED <<now, issued, usedActions, socketVars, rateVars, resourceVars, sumVars>>

\* updateUserScore, second command: ZREVRANK
Rank(p) ==
    /\ req[p].pc = "rank"
    /\ req' = [req EXCEPT ![p].newRank = NewRank(leaderboard, req[p].userId),
                          ![p].pc = req[p].ret]
    /\ UNCHANGED <<now, issued, leaderboard, usedActions, transactions, socketVars, rateVars, resourceVars, sumVars>>

\* SETEX action:<actionId> 3600 'used'
MarkUsed(p) ==
    /\ req[p].pc = "mark"
    /\ usedActions' = SetEx(usedActions, ActionKey(req[p].actionId),
                            USED_ACTION_TTL, "used", now)
    /\ req' = [req EXCEPT ![p].pc = "done"]
    /\ UNCHANGED <<now, issued, leaderboard, transactions, socketVars, rateVars, resourceVars, sumVars>>

\* the tokens handed out before the first submission: two actions started at
\* time 0, the first by the user ranked second to last, the second by the same
\* user or by the user without a score
IssuedTokens ==
    { {InitializeAction("a1", NRanked - 1, "COMPLETE_QUEST", 0),
       InitializeAction("a2", u2, ty2, 0)} :
        u2 \in {NRanked - 1, NRanked + 1}, ty2 \in ActionTypes }

Init ==
    /\ InitCommon
    /\ InitNoApi
    /\ InitNoSum
    /\ rateLimit = NoKeys
    /\ issued \in IssuedTokens

Next ==
    \/ Tick
    \/ \E p \in Procs : Submit(p)
    \/ \E p \in Procs : Validate(p)
    \/ \E p \in Procs : Award(p)
    \/ \E p \in Procs : Rank(p)
    \/ \E p \in Procs : MarkUsed(p)

Spec == Init /\ [][Next]_vars

(***************************************************************************)
(* POST /actions/initialize followed by POST /scores/submit with fields of *)
(* the client's choice                                                     *)
(***************************************************************************)
\* action tokens handed out in one run
MaxTokens == 1

\* the time at which a token is handed out, if not at time 0
SignTimes == {10}

\* the users that start and submit actions
SignUsers == {NRanked - 1, NRanked}

\* the values a client writes into the fields of a submission: actionType is
\* a string and timestamp a number of the request body
SentActionIds == {"a1", "a2"}
SentActionTypes == ActionTypes \cup {"COMPLETE_QUEST1"}
SentTimestamps == {0, 10}

TickSign ==
    /\ \E t \in SignTimes : t > now /\ now' = t
    /\ UNCHANGED <<issued, leaderboard, usedActions, req, transactions, socketVars,
                   rateVars, resourceVars, sumVars>>

\* POST /actions/initialize: the server signs the action with its clock
IssueAction ==
    /\ Cardinality(issued) < MaxTokens
    /\ \E u \in SignUsers, ty \in ActionTypes :
          issued' = issued \cup {InitializeAction("a1", u, ty, now)}
    /\ UNCHANGED <<now, leaderboard, usedActions, req, transactions, socketVars,
                   rateVars, resourceVars, sumVars>>

\* POST /scores/submit: the user of the JWT sends a signature that was handed
\* out, with an actionId, an actionType and a timestamp
SubmitFields(p) ==
    /\ Free(p)
    /\ \E tok \in issued, u \in SignUsers, a \in SentActionIds,
          ty \in SentActionTypes, ts \in SentTimestamps :
          req' = [req EXCEPT ![p] =
                    [Idle EXCEPT !.pc = "validate", !.userId = u,
                                 !.actionId = a, !.actionType = ty,
                                 !.timestamp = ts,
                                 !.signature = tok.signature,
                                 !.ret = "mark"]]
    /\ UNCHANGED <<now, issued, leaderboard, usedActions, transactions, socketVars,
                   rateVars, resourceVars, sumVars>>

InitSign ==
    /\ InitCommon
    /\ InitNoApi
    /\ InitNoSum
    /\ rateLimit = NoKeys
    /\ issued = {}

NextSign ==
    \/ TickSign
    \/ IssueAction
    \/ \E p \in Procs : SubmitFields(p)
    \/ \E p \in Procs : Validate(p)
    \/ \E p \in Procs : Award(p)
    \/ \E p \in Procs : Rank(p)
    \/ \E p \in Procs : MarkUsed(p)

SpecSign == InitSign /\ [][NextSign]_vars

(***************************************************************************)
(* POST /scores/submit behind the gateway's rate limiter, with Redis       *)
(* commands that may fail                                                  *)
(***************************************************************************)
\* the user whose submissions go through the whole pipeline
SubmitUser == NRanked - 1

SubmitVariants == {"genuine", "retyped", "metadata"}

\* the times at which the clock is observed, after time 0: the time a client
\* that was denied at time 0 comes back, which is also the end of the rate
\* window that is open initially, and the time the token expires
SubmitTimes == {RETRY_AFTER * 1000, ACTION_EXPIRATION_MS}

TickSubmit ==
    /\ \E t \in SubmitTimes : t > now /\ now' = t
    /\ UNCHANGED <<issued, leaderboard, usedActions, req, transactions, socketVars, rateVars, resourceVars, sumVars>>

\* the authenticated user sends a token of theirs, as issued or altered
SubmitScore(p) ==
    /\ Free(p)
    /\ \E tok \in issued, variant \in SubmitVariants :
          LET r == SubmitRequest(tok, variant)
          IN  req' = [req EXCEPT ![p] =
                        [Idle EXCEPT !.pc = "limit", !.userId = tok.userId,
                                     !.actionId = r.actionId,
                                     !.actionType = r.actionType,
                                     !.metadata = r.metadata,
                                     !.timestamp = r.timestamp,
                                     !.signature = r.signature,
                                     !.arrivedAt = now,
                                     !.ret = "mark"]]
    /\ UNCHANGED <<now, issued, leaderboard, usedActions, transactions, socketVars, rateVars, resourceVars, sumVars>>

\* the request ends with the 429 response if the count is above the limit,
\* else it goes on to the validation
AfterLimitMutConsumes(r, current, t) ==
    IF RateLimitExceeded(current)
    THEN [r EXCEPT !.result = RateLimitError.error, !.at = t, !.pc = "mark"]
    ELSE [r EXCEPT !.pc = "validate"]
AfterLimit(r, current, t) ==
    IF RateLimitExceeded(current)
    THEN [r EXCEPT !.result = RateLimitError.error, !.at = t, !.pc = "done"]
    ELSE [r EXCEPT !.pc = "validate"]

\* rate limiter: const current = await redis.incr(key)
LimitIncr(p) ==
    /\ req[p].pc = "limit"
    /\ LET key == RateKey(req[p].userId)
           current == IncrValue(rateLimit, key, now)
       IN  /\ rateLimit' = Incr(rateLimit, key, now)
           /\ req' = [req EXCEPT ![p] =
                        IF current = 1
                        THEN [req[p] EXCEPT !.current = current, !.pc = "limitExpire"]
                        ELSE AfterLimit(req[p], current, now)]
    /\ UNCHANGED <<now, issued, leaderboard, usedActions, transactions, socketVars,
                   rateLog, requests, resourceVars, sumVars>>

\* rate limiter: if (current === 1) await redis.expire(key, 60)
LimitExpire(p) ==
    /\ req[p].pc = "limitExpire"
    /\ rateLimit' = Expire(rateLimit, RateKey(req[p].userId), RATE_LIMIT_WINDOW, now)
    /\ req' = [req EXCEPT ![p] = AfterLimit(req[p], req[p].current, now)]
    /\ UNCHANGED <<now, issued, leaderboard, usedActions, transactions, socketVars,
                   rateLog, requests, resourceVars, sumVars>>

\* an awaited Redis command is rejected: the exception leaves the handler, the
\* statements after the await are not run
OnRejectionMutSwallowed(r) == [r EXCEPT !.pc = "mark"]
OnRejection(r) == [r EXCEPT !.pc = "failed"]

\* redis.zincrby fails: the score is not applied
AwardFails(p) ==
    /\ req[p].pc = "award"
    /\ req' = [req EXCEPT ![p] = OnRejection(req[p])]
    /\ UNCHANGED <<now, issued, leaderboard, usedActions, transactions, socketVars, rateVars, resourceVars, sumVars>>

\* one token, for an action started at time 0; its user has made 9 or 10
\* submissions in the rate window that began at time 0
InitSubmit ==
    /\ InitCommon
    /\ InitNoApi
    /\ InitNoSum
    /\ issued = {InitializeAction("a1", SubmitUser, "COMPLETE_QUEST", 0)}
    /\ \E c \in {RATE_LIMIT_MAX_REQUESTS - 1, RATE_LIMIT_MAX_REQUESTS} :
          rateLimit = [k \in {RateKey(SubmitUser)} |->
                          [val |-> c, expireAt |-> RATE_LIMIT_WINDOW * 1000]]

\* redis.zrevrank fails after the ZINCRBY has been applied
RankFails(p) ==
    /\ req[p].pc = "rank"
    /\ req' = [req EXCEPT ![p] = OnRejection(req[p])]
    /\ UNCHANGED <<now, issued, leaderboard, usedActions, transactions, socketVars, rateVars, resourceVars, sumVars>>

NextSubmit ==
    \/ TickSubmit
    \/ \E p \in Procs : SubmitScore(p)
    \/ \E p \in Procs : LimitIncr(p)
    \/ \E p \in Procs : LimitExpire(p)
    \/ \E p \in Procs : Validate(p)
    \/ \E p \in Procs : Award(p)
    \/ \E p \in Procs : AwardFails(p)
    \/ \E p \in Procs : Rank(p)
    \/ \E p \in Procs : RankFails(p)
    \/ \E p \in Procs : MarkUsed(p)

SpecSubmit == InitSubmit /\ [][NextSubmit]_vars

(***************************************************************************)
(* Score update followed by LeaderboardManager.broadcastScoreUpdate        *)
(***************************************************************************)
\* the validated actions whose score is applied: by the user ranked second to
\* last, by the user ranked last and by the user without a score
UpdateInputs ==
    {<<NRanked - 1, "COMPLETE_QUEST">>, <<NRanked, "DEFEAT_BOSS">>,
     <<NRanked + 1, "COMPLETE_QUEST">>}

\* updateUserScore(userId, scoreToAdd) is called for a validated action
UpdateScore(p) ==
    /\ Free(p)
    /\ \E in \in UpdateInputs :
          req' = [req EXCEPT ![p] =
                    [Idle EXCEPT !.pc = "award", !.userId = in[1],
                                 !.scoreToAdd = ScoreTable(in[2]),
                                 !.ret = "broadcast"]]
    /\ UNCHANGED <<now, issued, leaderboard, usedActions, transactions, socketVars, rateVars, resourceVars, sumVars>>

ScoreData(r) ==
    [userId |-> r.userId, newScore |-> r.newScore, newRank |-> r.newRank,
     previousRank |-> r.previousRank]

\* io.to('leaderboard').emit(event): every socket now in the room receives it.
\* seq and by name the score update the event is for.
EmitToRoomMutBlocks(ev) ==
    /\ \A s \in room : inbox[s] = <<>>
    /\ inbox' = [s \in Sockets |-> IF s \in room THEN Append(inbox[s], ev) ELSE inbox[s]]
    /\ emitted' = Append(emitted, ev)
EmitToRoom(ev) ==
    /\ inbox' = [s \in Sockets |-> IF s \in room THEN Append(inbox[s], ev) ELSE inbox[s]]
    /\ emitted' = Append(emitted, ev)

\* broadcastScoreUpdate up to its first Redis command: checkTopTenChanged reads
\* scoreData only, so the score:update of the else branch is emitted in the
\* same turn, while the leaderboard:update waits for getLeaderboard
BroadcastScoreUpdate(p) ==
    /\ req[p].pc = "broadcast"
    /\ LET changed == checkTopTenChanged(ScoreData(req[p]))
       IN  IF changed
           THEN /\ req' = [req EXCEPT ![p].topTenChanged = TRUE, ![p].pc = "fetch"]
                /\ UNCHANGED <<inbox, emitted>>
           ELSE /\ EmitToRoom([event |-> "score:update", type |-> "SCORE_CHANGED",
                               data |-> ScoreData(req[p]),
                               seq |-> req[p].seq, by |-> p])
                /\ req' = [req EXCEPT ![p].pc = "done"]
    /\ UNCHANGED <<now, issued, leaderboard, usedActions, transactions,
                   connected, closed, room, left, rateVars, resourceVars, sumVars>>

\* await getLeaderboard(10): the ZREVRANGE
FetchLeaderboard(p) ==
    /\ req[p].pc = "fetch"
    /\ req' = [req EXCEPT ![p].snapshot = getLeaderboard(leaderboard, TOP_TEN),
                          ![p].pc = "emitLeaderboard"]
    /\ UNCHANGED <<now, issued, leaderboard, usedActions, transactions, socketVars, rateVars, resourceVars, sumVars>>

\* the emit after getLeaderboard has returned
EmitLeaderboard(p) ==
    /\ req[p].pc = "emitLeaderboard"
    /\ EmitToRoom([event |-> "leaderboard:update", type |-> "LEADERBOARD_REFRESH",
                   data |-> [leaderboard |-> req[p].snapshot],
                   seq |-> req[p].seq, by |-> p])
    /\ req' = [req EXCEPT ![p].pc = "done"]
    /\ UNCHANGED <<now, issued, leaderboard, usedActions, transactions,
                   connected, closed, room, left, rateVars, resourceVars, sumVars>>

\* io.on('connection'): every connection is a new socket
Connect(s) ==
    /\ s \notin connected
    /\ s \notin closed
    /\ connected' = connected \cup {s}
    /\ UNCHANGED <<now, issued, leaderboard, usedActions, req, transactions,
                   closed, room, left, inbox, emitted, rateVars, resourceVars, sumVars>>

\* the user a socket belongs to (socket.userId, from the JWT of the handshake)
SocketUser(s) == NRanked - 1

\* socket.on('join:leaderboard'): socket.join('leaderboard'); a client joins
\* when it is not in the room or after it has sent leave:leaderboard
JoinLeaderboard(s) ==
    /\ s \in connected
    /\ s \notin room \/ s \in left
    /\ room' = room \cup {s}
    /\ left' = left \ {s}
    /\ UNCHANGED <<now, issued, leaderboard, usedActions, req, transactions,
                   connected, closed, inbox, emitted, rateVars, resourceVars, sumVars>>

\* a client in the room sends leave:leaderboard: setupListeners registers no
\* listener for the event, so the server does nothing
LeaveLeaderboard(s) ==
    /\ s \in connected
    /\ s \in room
    /\ s \notin left
    /\ left' = left \cup {s}
    /\ UNCHANGED <<now, issued, leaderboard, usedActions, req, transactions,
                   connected, closed, room, inbox, emitted, rateVars, resourceVars, sumVars>>

\* socket.on('disconnect'): the handler logs; Socket.IO has taken the
\* disconnected socket out of all its rooms
DisconnectMutStaysInRoom(s) ==
    /\ s \in connected
    /\ connected' = connected \ {s}
    /\ closed' = closed \cup {s}
    /\ left' = left \ {s}
    /\ UNCHANGED <<now, issued, leaderboard, usedActions, req, transactions,
                   room, inbox, emitted, rateVars, resourceVars, sumVars>>
Disconnect(s) ==
    /\ s \in connected
    /\ connected' = connected \ {s}
    /\ closed' = closed \cup {s}
    /\ room' = room \ {s}
    /\ left' = left \ {s}
    /\ UNCHANGED <<now, issued, leaderboard, usedActions, req, transactions,
                   inbox, emitted, rateVars, resourceVars, sumVars>>

InitBroadcast ==
    /\ InitCommon
    /\ InitNoApi
    /\ InitNoSum
    /\ rateLimit = NoKeys
    /\ issued = {}

NextBroadcast ==
    \/ \E p \in Procs : UpdateScore(p)
    \/ \E p \in Procs : Award(p)
    \/ \E p \in Procs : Rank(p)
    \/ \E p \in Procs : BroadcastScoreUpdate(p)
    \/ \E p \in Procs : FetchLeaderboard(p)
    \/ \E p \in Procs : EmitLeaderboard(p)
    \/ \E s \in Sockets : Connect(s)
    \/ \E s \in Sockets : JoinLeaderboard(s)
    \/ \E s \in Sockets : LeaveLeaderboard(s)
    \/ \E s \in Sockets : Disconnect(s)

SpecBroadcast == InitBroadcast /\ [][NextBroadcast]_vars

(***************************************************************************)
(* Rate limiting of one user's submissions                                 *)
(***************************************************************************)
\* the user whose submissions are counted
RateUser == NRanked - 1

\* the times at which submissions arrive: the start of a window, its last
\* second, its end and the second after
RateTimes ==
    {(RATE_LIMIT_WINDOW - 1) * 1000, RATE_LIMIT_WINDOW * 1000,
     (RATE_LIMIT_WINDOW + 1) * 1000}

TickRate ==
    /\ \E t \in RateTimes : t > now /\ now' = t
    /\ UNCHANGED <<issued, leaderboard, usedActions, req, transactions, socketVars, rateVars, resourceVars, sumVars>>

\* the decision on a submission that arrived at time at, added to the log;
\* of a denial the log keeps the retryAfter sent and the time that the
\* counter's key had left (remaining)
Decide(log, at, current, remaining) ==
    LET old == IF at \in DOMAIN log THEN log[at]
               ELSE [allowed |-> 0, denied |-> 0, errors |-> {}]
        new == IF RateLimitExceeded(current)
               THEN [old EXCEPT !.denied = @ + 1,
                                !.errors = @ \cup {[retryAfter |-> RateLimitError.retryAfter,
                                                    remaining |-> remaining]}]
               ELSE [old EXCEPT !.allowed = @ + 1]
    IN  [t \in DOMAIN log \cup {at} |-> IF t = at THEN new ELSE log[t]]

RateRequest(p) ==
    /\ Free(p)
    /\ requests < MaxRequests
    /\ requests' = requests + 1
    /\ req' = [req EXCEPT ![p] = [Idle EXCEPT !.pc = "incr", !.userId = RateUser]]
    /\ UNCHANGED <<now, issued, leaderboard, usedActions, transactions, socketVars,
                   rateLimit, rateLog, resourceVars, sumVars>>

\* const current = await redis.incr(key); a count above 1 is checked at once
RateIncr(p) ==
    /\ req[p].pc = "incr"
    /\ LET key == RateKey(req[p].userId)
           current == IncrValue(rateLimit, key, now)
       IN  /\ rateLimit' = Incr(rateLimit, key, now)
           /\ IF current = 1
              THEN /\ req' = [req EXCEPT ![p].current = current, ![p].at = now,
                                         ![p].pc = "expire"]
                   /\ UNCHANGED rateLog
              ELSE /\ rateLog' = Decide(rateLog, now, current,
                                         PTtl(rateLimit', key, now))
                   /\ req' = [req EXCEPT ![p] = Idle]
    /\ UNCHANGED <<now, issued, leaderboard, usedActions, transactions, socketVars,
                   requests, resourceVars, sumVars>>

\* if (current === 1) await redis.expire(key, 60); then the check
RateExpire(p) ==
    /\ req[p].pc = "expire"
    /\ rateLimit' = Expire(rateLimit, RateKey(req[p].userId), RATE_LIMIT_WINDOW, now)
    /\ rateLog' = Decide(rateLog, req[p].at, req[p].current,
                          PTtl(rateLimit', RateKey(req[p].userId), now))
    /\ req' = [req EXCEPT ![p] = Idle]
    /\ UNCHANGED <<now, issued, leaderboard, usedActions, transactions, socketVars,
                   requests, resourceVars, sumVars>>

InitRate ==
    /\ InitCommon
    /\ InitNoApi
    /\ InitNoSum
    /\ rateLimit = NoKeys
    /\ issued = {}

NextRate ==
    \/ TickRate
    \/ \E p \in Procs : RateRequest(p)
    \/ \E p \in Procs : RateIncr(p)
    \/ \E p \in Procs : RateExpire(p)

SpecRate == InitRate /\ [][NextRate]_vars

(***************************************************************************)
(* Resources REST API (src/src/problem5): Express handlers over the SQLite *)
(* table resources.  A JavaScript string is a sequence of characters.      *)
(* Every statement sent to SQLite is one atomic step; every `await` is a   *)
(* point where other requests may run.                                     *)
(***************************************************************************)
WhiteSpace == {" ", "\t"}

DigitValue(c) ==
    CASE c = "0" -> 0 [] c = "1" -> 1 [] c = "2" -> 2 [] c = "3" -> 3
      [] c = "4" -> 4 [] c = "5" -> 5 [] c = "6" -> 6 [] c = "7" -> 7
      [] c = "8" -> 8 [] c = "9" -> 9
      [] c \in {"a", "A"} -> 10 [] c \in {"b", "B"} -> 11
      [] c \in {"c", "C"} -> 12 [] c \in {"d", "D"} -> 13
      [] c \in {"e", "E"} -> 14 [] c \in {"f", "F"} -> 15
      [] OTHER -> 99

RECURSIVE TrimStart(_)
TrimStart(str) ==
    IF str /= <<>> /\ Head(str) \in WhiteSpace THEN TrimStart(Tail(str)) ELSE str

RECURSIVE TrimEnd(_)
TrimEnd(str) ==
    IF str /= <<>> /\ str[Len(str)] \in WhiteSpace
    THEN TrimEnd(SubSeq(str, 1, Len(str) - 1))
    ELSE str

\* String.prototype.trim
trim(str) == TrimEnd(TrimStart(str))

NaN == [tag |-> "NaN", n |-> 0]
isNaN(v) == v.tag = "NaN"

\* the digits of the radix at the start of str, as a number; -1 if none
RECURSIVE ParsePrefix(_, _, _, _)
ParsePrefix(str, radix, acc, any) ==
    IF str /= <<>> /\ DigitValue(Head(str)) < radix
    THEN ParsePrefix(Tail(str), radix, acc * radix + DigitValue(Head(str)), TRUE)
    ELSE IF any THEN acc ELSE -1

\* parseInt(string) of JavaScript without a radix: leading white space is
\* skipped, a sign is read, "0x" selects radix 16, then the longest prefix of
\* digits is the value; what follows the digits is ignored; NaN if there is
\* no digit
parseIntParam(str) ==
    LET s1 == TrimStart(str)
        signed == s1 /= <<>> /\ Head(s1) \in {"+", "-"}
        sign == IF s1 /= <<>> /\ Head(s1) = "-" THEN -1 ELSE 1
        s2 == IF signed THEN Tail(s1) ELSE s1
        hex == Len(s2) >= 2 /\ s2[1] = "0" /\ s2[2] \in {"x", "X"}
        s3 == IF hex THEN SubSeq(s2, 3, Len(s2)) ELSE s2
        n == ParsePrefix(s3, IF hex THEN 16 ELSE 10, 0, FALSE)
    IN  IF n < 0 THEN NaN ELSE JsNum(sign * n)

\* SQLite folds the case of ASCII letters in LIKE
Lower(c) ==
    CASE c = "A" -> "a" [] c = "B" -> "b" [] c = "C" -> "c" [] c = "D" -> "d"
      [] c = "E" -> "e" [] c = "F" -> "f" [] OTHER -> c

\* text LIKE pattern of SQLite: % matches any sequence of characters, _ any
\* one character, every other character itself without regard to case
RECURSIVE Like(_, _)
Like(text, pattern) ==
    IF pattern = <<>> THEN text = <<>>
    ELSE IF Head(pattern) = "%"
         THEN Like(text, Tail(pattern))
                \/ (text /= <<>> /\ Like(Tail(text), pattern))
         ELSE /\ text /= <<>>
              /\ Head(pattern) = "_" \/ Lower(Head(pattern)) = Lower(Head(text))
              /\ Like(Tail(text), Tail(pattern))

\* !value of JavaScript for a text or undefined
Falsy(v) == v = Undefined \/ v = Null \/ v = <<>>

\* value || fallback
OrElse(v, fallback) == IF Falsy(v) THEN fallback ELSE v

\* CURRENT_TIMESTAMP: the clock in whole seconds
CURRENT_TIMESTAMP(t) == t \div 1000

\* INSERT INTO resources (name, description, category, status): the id is one
\* more than the largest id the table has ever handed out (AUTOINCREMENT)
LastIDMutReuse(table, seq) ==
    IF DOMAIN table = {} THEN 1
    ELSE 1 + CHOOSE i \in DOMAIN table : \A j \in DOMAIN table : j <= i
LastID(table, seq) == seq + 1

InsertedRow(id, resource, t) ==
    [id |-> id, name |-> resource.name,
     description |-> OrElse(resource.description, Null),
     category |-> OrElse(resource.category, Null),
     status |-> OrElse(resource.status, Active),
     created_at |-> CURRENT_TIMESTAMP(t), updated_at |-> CURRENT_TIMESTAMP(t)]

Insert(table, id, resource, t) ==
    [i \in DOMAIN table \cup {id} |->
        IF i = id THEN InsertedRow(id, resource, t) ELSE table[i]]

\* SELECT * FROM resources WHERE id = ?: resolve(row || null)
getById(table, id) == IF id \in DOMAIN table THEN table[id] ELSE NullRow

\* the conditions that ResourceService.list appends to WHERE 1=1: a filter is
\* applied if it is truthy; a column that is NULL matches no filter
Matches(row, filters) ==
    /\ Falsy(filters.category) \/ row.category = filters.category
    /\ Falsy(filters.status) \/ row.status = filters.status
    /\ Falsy(filters.name)
         \/ Like(row.name, <<"%">> \o filters.name \o <<"%">>)

\* ORDER BY created_at DESC; rows of one second are given in the order of
\* their ids, the order in which SQLite visits the table
RECURSIVE SortedRows(_, _)
SortedRows(table, ids) ==
    IF ids = {} THEN <<>>
    ELSE LET first == CHOOSE i \in ids : \A j \in ids :
                         \/ table[i].created_at > table[j].created_at
                         \/ table[i].created_at = table[j].created_at /\ i <= j
         IN  <<table[first]>> \o SortedRows(table, ids \ {first})

\* ResourceService.list
list(table, filters) ==
    SortedRows(table, {i \in DOMAIN table : Matches(table[i], filters)})

\* the columns that ResourceService.update sets: those that are not undefined
UpdateFields(resource) ==
    {f \in {"name", "description", "category", "status"} : resource[f] /= Undefined}

\* UPDATE resources SET <fields>, updated_at = CURRENT_TIMESTAMP WHERE id = ?
UpdateRowMutAllFields(row, resource, t) ==
    [row EXCEPT !.name = resource.name, !.description = resource.description,
                !.category = resource.category, !.status = resource.status,
                !.updated_at = CURRENT_TIMESTAMP(t)]
UpdateRow(row, resource, t) ==
    LET set(f) == IF f \in UpdateFields(resource) THEN resource[f] ELSE row[f]
    IN  [row EXCEPT !.name = set("name"), !.description = set("description"),
                    !.category = set("category"), !.status = set("status"),
                    !.updated_at = CURRENT_TIMESTAMP(t)]

Update(table, id, resource, t) ==
    [i \in DOMAIN table |->
        IF i = id THEN UpdateRow(table[i], resource, t) ELSE table[i]]

\* DELETE FROM resources WHERE id = ?: this.changes is the number of rows
\* the statement removed
DeleteChangesMutAlways(table, id) == 1
DeleteChanges(table, id) == IF id \in DOMAIN table THEN 1 ELSE 0
Delete(table, id) == [i \in DOMAIN table \ {id} |-> table[i]]

(***************************************************************************)
(* ResourceController: the handlers of /api/v1/resources                   *)
(***************************************************************************)
\* the clock values at which statements run, after time 0
ResourceTimes == {1000}

\* the :id of a request: the id of a row the table starts with, the id of the
\* row created next, an id with text after its digits, and a word
IdParams == {<<"2">>, <<"3">>, <<"2", "x">>, <<"i", "d">>}

\* the bodies of POST requests: without name, with an empty name, with a name
\* of white space, and with names that are not blank
CreateBodies ==
    {NoFields,
     [NoFields EXCEPT !.name = <<>>],
     [NoFields EXCEPT !.name = <<" ", "\t">>, !.category = <<"t">>],
     [NoFields EXCEPT !.name = <<"a", "b">>, !.description = <<>>],
     [NoFields EXCEPT !.name = <<" ", "c">>, !.category = <<"t">>,
                      !.status = <<"o", "f", "f">>]}

\* the bodies of PUT requests: without fields, with a name, with a name of
\* white space, and with a status and a category
UpdateBodies ==
    {NoFields,
     [NoFields EXCEPT !.name = <<"d">>],
     [NoFields EXCEPT !.name = <<" ">>],
     [NoFields EXCEPT !.status = <<"o", "f", "f">>, !.category = <<"t">>]}

\* the query strings of GET /: req.query.category, .status and .name
Queries ==
    {NoFields,
     [NoFields EXCEPT !.category = <<"t">>],
     [NoFields EXCEPT !.category = <<>>],
     [NoFields EXCEPT !.status = Active, !.name = <<"B">>],
     [NoFields EXCEPT !.name = <<"_">>]}

TickResource ==
    /\ \E t \in ResourceTimes : t > now /\ now' = t
    /\ UNCHANGED <<issued, leaderboard, usedActions, req, transactions, socketVars,
                   rateVars, resourceVars, sumVars>>

\* a request is handled in the lowest slot that has not been used
CallFree(p) ==
    /\ calls[p].pc = "idle"
    /\ \A q \in Procs : q < p => calls[q].pc /= "idle"

\* res.status(status).json(body)
Respond(c, status, body) ==
    [c EXCEPT !.pc = "done", !.status = status, !.response = body]

ErrorBody(error) == [NoResponse EXCEPT !.keys = {"error"}, !.error = error]

\* the request as the router hands it to a handler
Received(method, param, body, query) ==
    [NoCall EXCEPT !.method = method, !.param = param, !.body = body,
                   !.query = query]

scoreboardVars ==
    <<issued, leaderboard, usedActions, req, transactions, socketVars, rateVars>>

\* ResourceController.create up to the INSERT of ResourceService.create
NameRequiredMutNoTrim(resourceData) == Falsy(resourceData.name)
NameRequired(resourceData) ==
    Falsy(resourceData.name) \/ trim(resourceData.name) = <<>>

PostResource(p) ==
    /\ CallFree(p)
    /\ \E body \in CreateBodies :
          LET c == Received("POST", <<>>, body, NoFields)
              id == LastID(resources, sqliteSequence)
          IN  IF NameRequired(body)
              THEN /\ calls' = [calls EXCEPT ![p] =
                                  Respond(c, 400, ErrorBody("Name is required"))]
                   /\ UNCHANGED <<resources, sqliteSequence>>
              ELSE /\ resources' = Insert(resources, id, body, now)
                   /\ sqliteSequence' = id
                   /\ calls' = [calls EXCEPT ![p] =
                                  [c EXCEPT !.pc = "created", !.id = id]]
    /\ UNCHANGED <<now, removed, scoreboardVars, sumVars>>

\* ResourceService.create after the INSERT: the SELECT by this.lastID, then
\* the 201 response; a row that is not there is undefined, which JSON omits
SelectCreated(p) ==
    /\ calls[p].pc = "created"
    /\ LET found == calls[p].id \in DOMAIN resources
           row == IF found THEN resources[calls[p].id] ELSE NullRow
       IN  calls' = [calls EXCEPT ![p] = Respond(@, 201,
              [NoResponse EXCEPT
                  !.keys = IF found THEN {"success", "data", "message"}
                           ELSE {"success", "message"},
                  !.success = TRUE, !.data = row,
                  !.message = "Resource created successfully"])]
    /\ UNCHANGED <<now, resources, sqliteSequence, removed, scoreboardVars, sumVars>>

\* ResourceController.list
ListResources(p) ==
    /\ CallFree(p)
    /\ \E query \in Queries :
          LET rows == list(resources, query)
          IN  calls' = [calls EXCEPT ![p] =
                 Respond(Received("GET", <<>>, NoFields, query), 200,
                    [NoResponse EXCEPT !.keys = {"success", "data", "count"},
                                       !.success = TRUE, !.data = rows,
                                       !.count = Len(rows)])]
    /\ UNCHANGED <<now, resources, sqliteSequence, removed, scoreboardVars, sumVars>>

InvalidId(c) == Respond(c, 400, ErrorBody("Invalid resource ID"))
NotFound(c) == Respond(c, 404, ErrorBody("Resource not found"))

\* ResourceController.getById
GetResource(p) ==
    /\ CallFree(p)
    /\ \E param \in IdParams :
          LET c == Received("GET", param, NoFields, NoFields)
              id == parseIntParam(param)
              resource == getById(resources, id.n)
          IN  calls' = [calls EXCEPT ![p] =
                 IF isNaN(id) THEN InvalidId(c)
                 ELSE IF resource = NullRow THEN NotFound([c EXCEPT !.id = id.n])
                 ELSE Respond([c EXCEPT !.id = id.n], 200,
                         [NoResponse EXCEPT !.keys = {"success", "data"},
                                            !.success = TRUE, !.data = resource])]
    /\ UNCHANGED <<now, resources, sqliteSequence, removed, scoreboardVars, sumVars>>

\* ResourceController.update up to the answer of its getById
PutResource(p) ==
    /\ CallFree(p)
    /\ \E param \in IdParams : \E body \in UpdateBodies :
          LET c == Received("PUT", param, body, NoFields)
              id == parseIntParam(param)
              existingResource == getById(resources, id.n)
          IN  calls' = [calls EXCEPT ![p] =
                 IF isNaN(id) THEN InvalidId(c)
                 ELSE IF existingResource = NullRow THEN NotFound([c EXCEPT !.id = id.n])
                 ELSE [c EXCEPT !.pc = "update", !.id = id.n]]
    /\ UNCHANGED <<now, resources, sqliteSequence, removed, scoreboardVars, sumVars>>

Updated(c, updatedResource) ==
    Respond(c, 200,
       [NoResponse EXCEPT !.keys = {"success", "data", "message"},
                          !.success = TRUE, !.data = updatedResource,
                          !.message = "Resource updated successfully"])

\* ResourceService.update: without a field to set it answers with getById;
\* otherwise this step is the UPDATE
UpdateResource(p) ==
    /\ calls[p].pc = "update"
    /\ IF UpdateFields(calls[p].body) = {}
       THEN /\ calls' = [calls EXCEPT ![p] =
                           Updated(@, getById(resources, calls[p].id))]
            /\ UNCHANGED resources
       ELSE /\ resources' = Update(resources, calls[p].id, calls[p].body, now)
            /\ calls' = [calls EXCEPT ![p].pc = "updated"]
    /\ UNCHANGED <<now, sqliteSequence, removed, scoreboardVars, sumVars>>

\* ResourceService.update after the UPDATE: getById, then the 200 response of
\* the controller
SelectUpdated(p) ==
    /\ calls[p].pc = "updated"
    /\ calls' = [calls EXCEPT ![p] = Updated(@, getById(resources, calls[p].id))]
    /\ UNCHANGED <<now, resources, sqliteSequence, removed, scoreboardVars, sumVars>>

\* ResourceController.delete
DeleteResource(p) ==
    /\ CallFree(p)
    /\ \E param \in IdParams :
          LET c == Received("DELETE", param, NoFields, NoFields)
              id == parseIntParam(param)
              deleted == DeleteChanges(resources, id.n) > 0
          IN  IF isNaN(id)
              THEN /\ calls' = [calls EXCEPT ![p] = InvalidId(c)]
                   /\ UNCHANGED <<resources, removed>>
              ELSE /\ resources' = Delete(resources, id.n)
                   /\ removed' = IF id.n \in DOMAIN resources
                                 THEN removed \cup {id.n} ELSE removed
                   /\ calls' = [calls EXCEPT ![p] =
                         IF ~deleted THEN NotFound([c EXCEPT !.id = id.n])
                         ELSE Respond([c EXCEPT !.id = id.n], 200,
                                 [NoResponse EXCEPT
                                     !.keys = {"success", "message"},
                                     !.success = TRUE,
                                     !.message = "Resource deleted successfully"])]
    /\ UNCHANGED <<now, sqliteSequence, scoreboardVars, sumVars>>

\* errorHandler: a statement that SQLite fails rejects the promise, the
\* handler's catch calls next(error); NODE_ENV decides on the stack
errorHandler(c, env) ==
    Respond(c, 500,
       [NoResponse EXCEPT
           !.keys = IF env = "development"
                    THEN {"success", "error", "message", "stack"}
                    ELSE {"success", "error", "message"},
           !.success = FALSE, !.error = "Internal server error",
           !.message = "SQLITE_ERROR"])

StatementFails(p) ==
    /\ calls[p].pc \in {"created", "update", "updated"}
    /\ \E env \in {"production", "development"} :
          calls' = [calls EXCEPT ![p] = errorHandler(@, env)]
    /\ UNCHANGED <<now, resources, sqliteSequence, removed, scoreboardVars, sumVars>>

\* notFoundHandler: a request that no route matches
notFoundHandler(c) ==
    Respond(c, 404,
       [NoResponse EXCEPT !.keys = {"success", "error", "message"},
                          !.success = FALSE, !.error = "Not Found",
                          !.message = "Route not found"])

UnknownRoute(p) ==
    /\ CallFree(p)
    /\ calls' = [calls EXCEPT ![p] =
                    notFoundHandler(Received("PATCH", <<"1">>, NoFields, NoFields))]
    /\ UNCHANGED <<now, resources, sqliteSequence, removed, scoreboardVars, sumVars>>

\* the table holds two rows, created by two POST requests at time 0
InitialResources ==
    Insert(Insert(<<>>, 1, [NoFields EXCEPT !.name = <<"a", "b">>,
                                            !.category = <<"t">>], 0),
           2, [NoFields EXCEPT !.name = <<"c">>,
                               !.status = <<"o", "f", "f">>], 0)

InitResource ==
    /\ InitCommon
    /\ rateLimit = NoKeys
    /\ issued = {}
    /\ InitNoSum
    /\ resources = InitialResources
    /\ sqliteSequence = 2
    /\ calls = [p \in Procs |-> NoCall]
    /\ removed = {}

NextResource ==
    \/ TickResource
    \/ \E p \in Procs : PostResource(p)
    \/ \E p \in Procs : SelectCreated(p)
    \/ \E p \in Procs : ListResources(p)
    \/ \E p \in Procs : GetResource(p)
    \/ \E p \in Procs : PutResource(p)
    \/ \E p \in Procs : UpdateResource(p)
    \/ \E p \in Procs : SelectUpdated(p)
    \/ \E p \in Procs : DeleteResource(p)
    \/ \E p \in Procs : StatementFails(p)
    \/ \E p \in Procs : UnknownRoute(p)

SpecResource == InitResource /\ [][NextResource]_vars

(***************************************************************************)
(* sum_to_n_a, sum_to_n_b and sum_to_n_c (src/src/problem4/sum_to_n.ts),   *)
(* called with one argument n.  The loop of sum_to_n_b and the recursion   *)
(* of sum_to_n_c run step by step; the frames of the recursion are a       *)
(* sequence whose last element is the call being executed.                 *)
(***************************************************************************)
\* the arguments are the integers -MaxN .. MaxN
MaxN == 5

\* Math.abs
Abs(n) == IF n < 0 THEN -n ELSE n

\* return n < 0 ? -sum : sum
Signed(n, sum) == IF n < 0 THEN -sum ELSE sum

\* sum_to_n_a: (absN * (absN + 1)) / 2; the product of two consecutive
\* integers is even, so the quotient is the integer quotient
sum_to_n_a(n) ==
    LET absN == Abs(n)
        sum == (absN * (absN + 1)) \div 2
    IN  Signed(n, sum)

SumA ==
    /\ callA.pc = "idle"
    /\ callA' = [callA EXCEPT !.pc = "done", !.ret = sum_to_n_a(arg)]
    /\ UNCHANGED <<arg, callB, callC, scoreboardVars, now, resourceVars>>

\* sum_to_n_b: let sum = 0; const absN = Math.abs(n); let i = 1
EnterB ==
    /\ callB.pc = "idle"
    /\ callB' = [callB EXCEPT !.pc = "loop", !.i = 1, !.sum = 0]
    /\ UNCHANGED <<arg, callA, callC, scoreboardVars, now, resourceVars>>

\* the loop condition i <= absN
LoopConditionMutLess(i, absN) == i < absN
LoopCondition(i, absN) == i <= absN

\* one iteration: sum += i; i++
LoopB ==
    /\ callB.pc = "loop"
    /\ LoopCondition(callB.i, Abs(arg))
    /\ callB' = [callB EXCEPT !.sum = @ + callB.i, !.i = @ + 1]
    /\ UNCHANGED <<arg, callA, callC, scoreboardVars, now, resourceVars>>

ReturnB ==
    /\ callB.pc = "loop"
    /\ ~LoopCondition(callB.i, Abs(arg))
    /\ callB' = [callB EXCEPT !.pc = "done", !.ret = Signed(arg, callB.sum)]
    /\ UNCHANGED <<arg, callA, callC, scoreboardVars, now, resourceVars>>

\* a call of sum_to_n_c with argument n, not yet executed
Frame(n) == [n |-> n, pc |-> "enter", ret |-> 0]

\* the depth of recursion the engine's stack allows for
MaxDepth == MaxN + 2

EnterC ==
    /\ callC = <<>>
    /\ callC' = <<Frame(arg)>>
    /\ UNCHANGED <<arg, callA, callB, scoreboardVars, now, resourceVars>>

\* the argument of the recursive call: sum_to_n_c(absN - 1)
RecursiveArgumentMutN(n, absN) == n - 1
RecursiveArgument(n, absN) == absN - 1

\* the call on top executes up to its return or its recursive call:
\* if (absN === 0) return 0; otherwise sum_to_n_c(absN - 1) is called
StepC ==
    /\ callC /= <<>>
    /\ LET k == Len(callC)
           top == callC[k]
           absN == Abs(top.n)
       IN  /\ top.pc = "enter"
           /\ IF absN = 0
              THEN callC' = [callC EXCEPT ![k].pc = "done", ![k].ret = 0]
              ELSE /\ k < MaxDepth
                   /\ callC' = Append([callC EXCEPT ![k].pc = "wait"],
                                      Frame(RecursiveArgument(top.n, absN)))
    /\ UNCHANGED <<arg, callA, callB, scoreboardVars, now, resourceVars>>

\* the call on top has returned: its caller computes
\* sum = absN + <returned value> and returns n < 0 ? -sum : sum
ReturnC ==
    /\ Len(callC) >= 2
    /\ LET k == Len(callC)
           top == callC[k]
           caller == callC[k - 1]
           sum == Abs(caller.n) + top.ret
       IN  /\ top.pc = "done"
           /\ callC' = [SubSeq(callC, 1, k - 1) EXCEPT
                           ![k - 1].pc = "done",
                           ![k - 1].ret = Signed(caller.n, sum)]
    /\ UNCHANGED <<arg, callA, callB, scoreboardVars, now, resourceVars>>

InitSum ==
    /\ InitCommon
    /\ InitNoApi
    /\ rateLimit = NoKeys
    /\ issued = {}
    /\ arg \in -MaxN..MaxN
    /\ callA = NotCalled
    /\ callB = NotCalled
    /\ callC = <<>>

NextSum ==
    \/ SumA
    \/ EnterB
    \/ LoopB
    \/ ReturnB
    \/ EnterC
    \/ StepC
    \/ ReturnC

SpecSum == InitSum /\ [][NextSum]_vars

\* a call that can take a step takes it
SpecSumFair ==
    /\ SpecSum
    /\ WF_vars(EnterC)
    /\ WF_vars(StepC)
    /\ WF_vars(ReturnC)

(***************************************************************************)
(* Properties of the validation and of the score ledger (Spec)             *)
(***************************************************************************)
ActionIds == {tok.actionId : tok \in issued}

\* the request of p has passed its validation
Passed(p) == req[p].result = "OK"

\* the ZINCRBY of p's request has been applied
Applied(p) == req[p].seq > 0

TransactionsOf(actionId) ==
    {i \in DOMAIN transactions : transactions[i].actionId = actionId}

\* the token that a request with a valid signature carries
TokenOf(p) == CHOOSE tok \in issued : tok.actionId = req[p].actionId

RECURSIVE SumApplied(_, _)
SumApplied(ps, u) ==
    IF ps = {} THEN 0
    ELSE LET p == CHOOSE x \in ps : TRUE
         IN  (IF Applied(p) /\ req[p].userId = u THEN req[p].scoreToAdd ELSE 0)
                 + SumApplied(ps \ {p}, u)

\* C1: of the submissions of one token (one actionId) at most one passes the
\* validation, and at most one ScoreTransaction is recorded for that actionId,
\* however the submissions interleave.
C1_TokenAwardedOnce ==
    \A a \in ActionIds :
        /\ Cardinality({p \in Procs : req[p].actionId = a /\ Passed(p)}) <= 1
        /\ Cardinality(TransactionsOf(a)) <= 1

\* C2: a validate call on a validly signed, unexpired token succeeds if no
\* validate of that actionId has succeeded before, and returns REPLAYED_ACTION
\* if one has: validate succeeds exactly once per token.
C2_ValidateSucceedsOnce ==
    [][\A p \in Procs :
          (Validate(p) /\ isValidSignature(req[p])
                       /\ isNotExpired(now, req[p].timestamp))
          => req'[p].result =
                (IF \E q \in Procs : /\ q /= p
                                     /\ req[q].actionId = req[p].actionId
                                     /\ Passed(q)
                 THEN "REPLAYED_ACTION" ELSE "OK")]_vars

\* C3: a user's total score is the initial score plus the sum of every
\* scoreAwarded applied for that user, whatever the order of the applies.
C3_NoLostUpdate ==
    \A u \in Users :
        ZScore(leaderboard, u) = ZScore(InitialLeaderboard, u) + SumApplied(Procs, u)

\* two applies for the same user were in flight together, and both are applied
C3_Witness ==
    \E p, q \in Procs :
        /\ p /= q
        /\ req[p].userId = req[q].userId
        /\ req[p].pc = "rank" /\ req[q].pc = "rank"

\* C9: a validly signed token validated 1 ms after expiresAt yields
\* EXPIRED_ACTION, and validated 1 ms before expiresAt does not.
C9_ExpiryBoundary ==
    \A p \in Procs :
        (req[p].result /= "" /\ isValidSignature(req[p]))
        => /\ (req[p].at = TokenOf(p).expiresAt + 1 => req[p].result = "EXPIRED_ACTION")
           /\ (req[p].at = TokenOf(p).expiresAt - 1 => req[p].result /= "EXPIRED_ACTION")

\* one valid token validated 1 ms before its expiry, another 1 ms after it
C9_Witness ==
    \E p, q \in Procs :
        /\ isValidSignature(req[p]) /\ isValidSignature(req[q])
        /\ req[p].at = TokenOf(p).expiresAt - 1 /\ req[p].result = "OK"
        /\ req[q].at = TokenOf(q).expiresAt + 1 /\ req[q].result = "EXPIRED_ACTION"

(***************************************************************************)
(* Properties of the ranking and of the broadcast (SpecBroadcast)          *)
(***************************************************************************)
EventsBy(p) == {i \in DOMAIN emitted : emitted[i].by = p}

\* a rank that is a number and at most k; "unranked" is not
RankWithin(v, k) == v.tag = "number" /\ v.n <= k

\* a listing of at most k entries, ranks 1, 2, ..., scores not increasing
IsRanking(top, k) ==
    /\ Len(top) <= k
    /\ \A i \in DOMAIN top : top[i].rank = i
    /\ \A i, j \in DOMAIN top : i < j => top[i].score >= top[j].score

\* C4: every subscriber receives the events of two score updates in the order
\* in which the updates were committed (seq is the commit order).
C4_DeliveryInCommitOrder ==
    \A s \in Sockets :
        \A i, j \in DOMAIN inbox[s] :
            i < j => inbox[s][i].seq < inbox[s][j].seq

C6_ScoreUpdateLeavesTopTen ==
    \A i \in DOMAIN emitted :
        emitted[i].event = "score:update" => ~req[emitted[i].by].topMoved

\* the limits topK is asked for
TopKLimits == {1, 2, TOP_TEN, NRanked + 2}

\* topK(k) of the present sorted set: at most k entries, all of them if there
\* are fewer, ranks equal to positions, scores not increasing, each score the
\* user's score, and no user left out who is ahead of a user listed
TopKCorrect(k) ==
    LET top == getLeaderboard(leaderboard, k)
        listed == {top[i].userId : i \in DOMAIN top}
        size == Cardinality(DOMAIN leaderboard)
    IN  /\ IsRanking(top, k)
        /\ Len(top) = (IF k < size THEN k ELSE size)
        /\ Cardinality(listed) = Len(top)
        /\ \A i \in DOMAIN top : top[i].score = leaderboard[top[i].userId]
        /\ \A u \in DOMAIN leaderboard \ listed :
              \A i \in DOMAIN top : leaderboard[u] <= top[i].score

\* C7: after any sequence of upserts topK(k) is correct for every k >= 0.
C7_TopK ==
    \A k \in TopKLimits \cup {0} : TopKCorrect(k)

\* topK(k) is correct for every limit k >= 1
TopKPositiveLimit ==
    \A k \in TopKLimits : TopKCorrect(k)

\* the commit that gave user u the present score; 0 for the initial scores
LastUpdatedAt(u) ==
    LET own == {i \in DOMAIN transactions : transactions[i].userId = u}
    IN  IF own = {} THEN 0 ELSE CHOOSE i \in own : \A j \in own : j <= i

\* C8: of two users with equal scores the one who reached the score earlier is
\* ranked higher in topK.
C8_EarlierScoreRanksHigher ==
    LET top == getLeaderboard(leaderboard, Cardinality(DOMAIN leaderboard))
    IN  \A i, j \in DOMAIN top :
            (/\ top[i].score = top[j].score
             /\ LastUpdatedAt(top[i].userId) < LastUpdatedAt(top[j].userId))
            => top[i].rank < top[j].rank

(***************************************************************************)
(* Properties of the rate limiter (SpecRate)                               *)
(***************************************************************************)
\* the submissions allowed in the 60 seconds that begin at time t
AllowedFrom(t) ==
    LET span == {x \in DOMAIN rateLog : t <= x /\ x < t + RATE_LIMIT_WINDOW * 1000}
        Sum[ts \in SUBSET span] ==
            IF ts = {} THEN 0
            ELSE LET x == CHOOSE y \in ts : TRUE
                 IN  rateLog[x].allowed + Sum[ts \ {x}]
    IN  Sum[span]

\* C10: of one user's submissions at most 10 are allowed within any 60
\* seconds: the 11th within the span is denied.
C10_TenPerMinute ==
    \A t \in DOMAIN rateLog : AllowedFrom(t) <= RATE_LIMIT_MAX_REQUESTS

\* C11: every RATE_LIMIT_EXCEEDED denial carries a retryAfter (in seconds)
\* equal to the time that remains of the exhausted counter's window.
C11_RetryAfterIsRemainingWindow ==
    \A t \in DOMAIN rateLog :
        \A e \in rateLog[t].errors : e.retryAfter * 1000 = e.remaining

(***************************************************************************)
(* Properties of the whole submission pipeline (SpecSubmit)                *)
(***************************************************************************)
Rejections ==
    {"INVALID_SIGNATURE", "EXPIRED_ACTION", "REPLAYED_ACTION", "RATE_LIMIT_EXCEEDED"}

\* C12: a rejected submission has changed no score and recorded no
\* transaction: the scores are the initial scores plus what the accepted
\* submissions applied, and there is one transaction per applied submission.
C12_RejectedLeavesLedger ==
    /\ \A p \in Procs :
          req[p].result \in Rejections
          => /\ ~Applied(p)
             /\ \A i \in DOMAIN transactions : transactions[i].by /= p
    /\ \A u \in Users :
          ZScore(leaderboard, u) = ZScore(InitialLeaderboard, u) + SumApplied(Procs, u)
    /\ Len(transactions) = Cardinality({p \in Procs : Applied(p)})

\* one submission was denied by the rate limiter, another was applied and has
\* finished
C12_Witness ==
    \E p, q \in Procs :
        /\ req[p].result = "RATE_LIMIT_EXCEEDED" /\ req[p].pc = "done"
        /\ Applied(q) /\ req[q].pc = "done"

\* C13: a token marked as used has a transaction recorded for its actionId,
\* and a validly signed, unexpired token for which no transaction is recorded
\* passes the validation (a retry after a failed write is accepted).
C13_ConsumedTokenHasTransaction ==
    /\ [](\A a \in ActionIds :
            Exists(usedActions, ActionKey(a), now) => TransactionsOf(a) /= {})
    /\ [][\A p \in Procs :
            (/\ Validate(p)
             /\ isValidSignature(req[p])
             /\ isNotExpired(now, req[p].timestamp)
             /\ TransactionsOf(req[p].actionId) = {})
            => req'[p].result = "OK"]_vars

\* the ZINCRBY of one submission failed, and a later submission of the same
\* token was accepted, applied and marked as used
C13_Witness ==
    \E p, q \in Procs :
        /\ req[p].pc = "failed" /\ ~Applied(p)
        /\ req[q].actionId = req[p].actionId
        /\ req[q].arrivedAt > req[p].at
        /\ Passed(q) /\ Applied(q) /\ req[q].pc = "done"
        /\ Exists(usedActions, ActionKey(req[q].actionId), now)

\* C14: if a submission was denied by the rate limiter and the same token,
\* still unexpired and not accepted in any other submission, is submitted again
\* once the retryAfter delay has passed, the new submission is accepted.
C14_DeniedTokenRetryable ==
    \A p, q \in Procs :
        (/\ p /= q
         /\ req[q].result = "RATE_LIMIT_EXCEEDED"
         /\ req[p].actionId = req[q].actionId
         /\ req[p].arrivedAt >= req[q].at + RateLimitError.retryAfter * 1000
         /\ req[p].pc \notin {"limit", "limitExpire", "validate"}
         /\ isValidSignature(req[p])
         /\ isNotExpired(req[p].at, req[p].timestamp)
         /\ \A r \in Procs \ {p} : req[r].actionId = req[p].actionId => ~Passed(r))
        => Passed(p)

\* a token denied at time 0 was submitted again after the delay, and applied
C14_Witness ==
    \E p, q \in Procs :
        /\ req[q].result = "RATE_LIMIT_EXCEEDED"
        /\ req[p].actionId = req[q].actionId
        /\ req[p].arrivedAt >= req[q].at + RateLimitError.retryAfter * 1000
        /\ Passed(p) /\ Applied(p)

C15_ScoreAndRankOfOneState ==
    [][\A p \in Procs :
          Rank(p) => ZScore(leaderboard, req[p].userId) = req[p].newScore]_vars

\* C16: the rank that a score update returns is the user's rank in the state
\* right after its ZINCRBY, and previousRank the rank right before it.
C16_RankIsRankAfterUpsert ==
    \A p \in Procs :
        req[p].newRank /= JsNull => req[p].newRank = req[p].rankAfter

InFlight == {p \in Procs : req[p].pc \notin {"idle", "done"}}

\* C19: a disconnected socket is in no room and receives no further event,
\* and a disconnect changes nothing of the score updates that are under way,
\* of the scores and of the transactions: each score update goes on from where
\* it was.
C19_DisconnectLeavesSubmissions ==
    /\ [](\A s \in closed : s \notin room)
    /\ [][\A s \in closed : inbox'[s] = inbox[s]]_vars
    /\ [][\A s \in Sockets :
            Disconnect(s) => /\ req' = req
                             /\ leaderboard' = leaderboard
                             /\ transactions' = transactions]_vars

\* a socket received an event and disconnected; a score update of its user
\* has since been applied and has emitted its event, which did not reach the
\* socket, and no score update is left unfinished
C19_Witness ==
    \E s \in closed, p \in Procs :
        /\ Len(inbox[s]) >= 1
        /\ Len(emitted) > Len(inbox[s])
        /\ emitted[Len(emitted)].by = p
        /\ req[p].userId = SocketUser(s)
        /\ Applied(p) /\ req[p].pc = "done"
        /\ InFlight = {}

\* C20: a socket that is not in the room, or that has sent leave:leaderboard
\* and not joined again, receives no event.
C20_OnlyMembersReceive ==
    [][\A s \in Sockets :
          (s \notin room \/ s \in left) => inbox'[s] = inbox[s]]_vars

DecimalDigits == {"0", "1", "2", "3", "4", "5", "6", "7", "8", "9"}

\* the text is the decimal numeral of an id
IsIntegerId(str) ==
    /\ str /= <<>>
    /\ \A k \in DOMAIN str : str[k] \in DecimalDigits

\* the requests that have been answered
Answered == {p \in Procs : calls[p].pc = "done"}

\* C22: GET, PUT and DELETE on /:id answer 400 'Invalid resource ID' for
\* every :id that is not the numeral of an integer, and no such request gets
\* as far as a statement on the table.
C22_InvalidIdRejected ==
    \A p \in Procs :
        /\ calls[p].pc /= "idle"
        /\ calls[p].method \in {"GET", "PUT", "DELETE"}
        /\ calls[p].param /= <<>>
        /\ ~IsIntegerId(calls[p].param)
        => /\ calls[p].pc = "done"
           /\ calls[p].status = 400
           /\ calls[p].response.error = "Invalid resource ID"

\* C23: a PUT that is answered 200 carries the updated resource as data: the
\* row of the id it addressed.
C23_UpdatedResourceOr404 ==
    \A p \in Answered :
        calls[p].method = "PUT" /\ calls[p].status = 200
        => /\ "data" \in calls[p].response.keys
           /\ calls[p].response.data /= NullRow
           /\ calls[p].response.data.id = calls[p].id

TextColumns == {"name", "description", "category", "status"}

\* C24: an UPDATE sets exactly the columns present in the request body, and
\* updated_at, of the row addressed; the columns not provided, the id and
\* created_at keep their values, every other row is unchanged, and an update
\* without columns changes nothing.
C24_UpdateChangesProvidedFields ==
    [][\A p \in Procs :
         UpdateResource(p)
         => /\ DOMAIN resources' = DOMAIN resources
            /\ \A i \in DOMAIN resources :
                  i /= calls[p].id => resources'[i] = resources[i]
            /\ calls[p].id \in DOMAIN resources
               => LET old == resources[calls[p].id]
                      new == resources'[calls[p].id]
                      provided == {f \in TextColumns : calls[p].body[f] /= Undefined}
                  IN  /\ \A f \in provided : new[f] = calls[p].body[f]
                      /\ \A f \in TextColumns \ provided : new[f] = old[f]
                      /\ new.id = old.id
                      /\ new.created_at = old.created_at
                      /\ new.updated_at = IF provided = {} THEN old.updated_at
                                          ELSE now \div 1000]_vars

\* a PUT with only a name has been applied to row 2 one second after the row
\* was created: the name and updated_at are new, the status and created_at
\* are the old ones, and row 1 is as it was
C24_Witness ==
    \E p \in Answered :
        /\ calls[p].method = "PUT"
        /\ calls[p].status = 200
        /\ calls[p].body.name = <<"d">>
        /\ calls[p].body.status = Undefined
        /\ 2 \in DOMAIN resources
        /\ resources[2].name = <<"d">>
        /\ resources[2].status = <<"o", "f", "f">>
        /\ resources[2].updated_at = 1
        /\ resources[2].created_at = 0
        /\ 1 \in DOMAIN resources
        /\ resources[1] = InitialResources[1]

RECURSIVE HasPrefix(_, _)
HasPrefix(text, sub) ==
    \/ sub = <<>>
    \/ /\ text /= <<>>
       /\ Lower(Head(text)) = Lower(Head(sub))
       /\ HasPrefix(Tail(text), Tail(sub))

\* text contains sub, letters compared without regard to case
Contains(text, sub) ==
    \E k \in 1..(Len(text) + 1) : HasPrefix(SubSeq(text, k, Len(text)), sub)

\* a filter is supplied if the query has the key with a text that is not empty
Supplied(v) == v /= Undefined /\ v /= <<>>

Satisfies(row, query) ==
    /\ Supplied(query.category) => row.category = query.category
    /\ Supplied(query.status) => row.status = query.status
    /\ Supplied(query.name) => Contains(row.name, query.name)

\* C25: list answers with exactly the stored resources that satisfy every
\* supplied filter (category equal, status equal, name containing the text),
\* and count is the number of resources returned.
C25_ListIsTheMatchingResources ==
    [][\A p \in Procs :
         ListResources(p)
         => LET data == calls'[p].response.data
                returned == {data[k] : k \in DOMAIN data}
            IN  /\ returned = {resources[i] : i \in
                                {j \in DOMAIN resources :
                                    Satisfies(resources[j], calls'[p].query)}}
                /\ Len(data) = Cardinality(returned)
                /\ calls'[p].response.count = Len(data)]_vars

\* the name is missing, empty or made of white space only
Blank(name) ==
    name = Undefined \/ \A k \in DOMAIN name : name[k] \in WhiteSpace

\* C26: a POST whose name is missing, empty or white space only is answered
\* 400 'Name is required' and stores nothing; a POST with another name stores
\* exactly one new resource, of that name, and the answer that follows the
\* reading back of the row is 201.
C26_NameRequired ==
    [][\A p \in Procs :
         /\ PostResource(p) /\ Blank(calls'[p].body.name)
            => /\ calls'[p].pc = "done"
               /\ calls'[p].status = 400
               /\ calls'[p].response.error = "Name is required"
               /\ resources' = resources
         /\ PostResource(p) /\ ~Blank(calls'[p].body.name)
            => /\ calls'[p].pc = "created"
               /\ \E i \in DOMAIN resources' :
                     /\ i \notin DOMAIN resources
                     /\ DOMAIN resources' = DOMAIN resources \cup {i}
                     /\ resources'[i].name = calls'[p].body.name
                     /\ calls'[p].id = i
               /\ \A j \in DOMAIN resources : resources'[j] = resources[j]
         /\ SelectCreated(p)
            => /\ calls'[p].status = 201
               /\ calls'[p].response.success
               /\ resources' = resources]_vars

\* one POST with a name of white space has been answered 400, another with
\* the name " c" has been answered 201 with the resource it stored, the third
\* row of the table
C26_Witness ==
    \E p, q \in Answered :
        /\ calls[p].method = "POST"
        /\ calls[p].body.name = <<" ", "\t">>
        /\ calls[p].status = 400
        /\ calls[q].method = "POST"
        /\ calls[q].status = 201
        /\ calls[q].response.data.name = <<" ", "c">>
        /\ DOMAIN resources = {1, 2, 3}
        /\ calls[q].response.data = resources[3]

\* C27: GET /:id of an id that the table holds answers 200 with the row as
\* it now is; an id whose row a DELETE has removed never is in the table
\* again, so GET of it answers 404 and no list contains it, whatever requests
\* came in between.
C27_DeletedStaysDeleted ==
    /\ [](removed \cap DOMAIN resources = {})
    /\ [][\A p \in Procs :
            /\ GetResource(p) /\ calls'[p].status /= 400
               => IF calls'[p].id \in DOMAIN resources
                  THEN /\ calls'[p].status = 200
                       /\ calls'[p].response.data = resources[calls'[p].id]
                  ELSE /\ calls'[p].status = 404
                       /\ calls'[p].response.error = "Resource not found"
            /\ ListResources(p)
               => \A k \in DOMAIN calls'[p].response.data :
                     LET row == calls'[p].response.data[k]
                     IN  /\ row.id \notin removed
                         /\ row.id \in DOMAIN resources
                         /\ row = resources[row.id]]_vars

\* DELETE /2 was answered 200 and a GET /2 was then answered 404
C27_Witness ==
    \E p, q \in Answered :
        /\ calls[p].method = "DELETE"
        /\ calls[p].param = <<"2">>
        /\ calls[p].status = 200
        /\ calls[q].method = "GET"
        /\ calls[q].param = <<"2">>
        /\ calls[q].status = 404
        /\ removed = {2}

\* the DELETE requests for id that were answered 200
Deleters(id) ==
    {p \in Answered : calls[p].method = "DELETE" /\ calls[p].id = id
                        /\ calls[p].status = 200}

\* C29: a DELETE is answered 200 if and only if the table held a row of the
\* id and this statement removed it, and 404 otherwise; of the DELETE requests
\* for one id at most one is answered 200.
C29_DeleteSucceedsOnce ==
    /\ [](\A id \in 1..(sqliteSequence + 1) : Cardinality(Deleters(id)) <= 1)
    /\ [][\A p \in Procs :
            DeleteResource(p) /\ calls'[p].status /= 400
            => /\ calls'[p].id \notin DOMAIN resources'
               /\ \A i \in DOMAIN resources :
                     i /= calls'[p].id => i \in DOMAIN resources'
                                           /\ resources'[i] = resources[i]
               /\ IF calls'[p].id \in DOMAIN resources
                  THEN calls'[p].status = 200 /\ calls'[p].response.success
                  ELSE /\ calls'[p].status = 404
                       /\ calls'[p].response.error = "Resource not found"
                       /\ resources' = resources]_vars

\* two DELETE /2 have been answered, one 200 and one 404
C29_Witness ==
    \E p, q \in Answered :
        /\ calls[p].method = "DELETE" /\ calls[p].param = <<"2">>
        /\ calls[q].method = "DELETE" /\ calls[q].param = <<"2">>
        /\ calls[p].status = 200
        /\ calls[q].status = 404
        /\ 2 \notin DOMAIN resources

\* C28: every answer with status 400, 404 or 500 has a body of the form
\* {success: false, error, message}.
C28_ErrorResponseForm ==
    \A p \in Answered :
        calls[p].status \in {400, 404, 500}
        => /\ {"success", "error", "message"} \subseteq calls[p].response.keys
           /\ calls[p].response.success = FALSE

(***************************************************************************)
(* Properties of the validation's error (Spec)                             *)
(***************************************************************************)
\* the request is what the server signed: its fields and its signature are
\* those of a token that was handed out
GoodSignature(r) ==
    \E tok \in issued :
        /\ tok.actionId = r.actionId
        /\ tok.userId = r.userId
        /\ tok.actionType = r.actionType
        /\ tok.timestamp = r.timestamp
        /\ tok.signature = r.signature

\* the validity window of the request's timestamp is over at time t
WindowOver(r, t) == t >= r.timestamp + ACTION_EXPIRATION_MS

\* the action is marked as used at time t
Consumed(r, t) == Exists(usedActions, ActionKey(r.actionId), t)

C31_RejectionSetsNoMarker ==
    [][\A p \in Procs :
         /\ Validate(p)
            => /\ usedActions' = usedActions
               /\ req'[p].result \in {"INVALID_SIGNATURE", "EXPIRED_ACTION"}
                  => req'[p].pc = "done"
               /\ (/\ GoodSignature(req[p])
                   /\ ~WindowOver(req[p], now)
                   /\ TransactionsOf(req[p].actionId) = {})
                  => req'[p].result = "OK"
         /\ MarkUsed(p) => req[p].result = "OK"]_vars

\* a submission with a forged signature was rejected, and later the genuine
\* token of the same actionId passed the validation
C31_Witness ==
    \E p, q \in Procs :
        /\ req[p].result = "INVALID_SIGNATURE" /\ req[p].pc = "done"
        /\ req[q].actionId = req[p].actionId
        /\ req[q].at > req[p].at
        /\ req[q].result = "OK"
        /\ GoodSignature(req[q])

\* C32: a validly signed token validated at now = expiresAt exactly does not
\* yield EXPIRED_ACTION.
C32_NotExpiredAtExpiresAt ==
    \A p \in Procs :
        (/\ req[p].result /= ""
         /\ GoodSignature(req[p])
         /\ req[p].at = TokenOf(p).expiresAt)
        => req[p].result /= "EXPIRED_ACTION"

\* C33: once a validation has succeeded for an actionId, no later validation
\* of that actionId succeeds, at whatever time it is made, the time after
\* the marker's TTL included.
C33_NoSuccessAfterSuccess ==
    [][\A p \in Procs :
         (/\ Validate(p)
          /\ \E q \in Procs : /\ q /= p
                              /\ req[q].actionId = req[p].actionId
                              /\ Passed(q))
         => req'[p].result /= "OK"]_vars

(***************************************************************************)
(* Properties of the signature (SpecSign)                                  *)
(***************************************************************************)
\* C34: a submission that differs from every issued token in actionId,
\* userId, actionType or timestamp is rejected with INVALID_SIGNATURE,
\* whichever signature it carries.
C34_AlteredFieldsRejected ==
    [][\A p \in Procs :
         Validate(p) /\ ~GoodSignature(req[p])
         => req'[p].result = "INVALID_SIGNATURE"]_vars

(***************************************************************************)
(* Properties of the broadcast decision (SpecBroadcast)                    *)
(***************************************************************************)
\* the events emitted for upserts of users who had no record
FirstUpsertEvents ==
    {i \in DOMAIN emitted : req[emitted[i].by].previousRank = JsStr("unranked")}

ClosedForm(n) ==
    IF n >= 0 THEN (n * (n + 1)) \div 2
    ELSE -(((-n) * ((-n) + 1)) \div 2)

ReturnedC == Len(callC) = 1 /\ callC[1].pc = "done"

\* C36: for every argument n of -MaxN .. MaxN the three functions return the
\* same value, n(n+1)/2 for n >= 0 and -(|n|(|n|+1)/2) for n < 0.
C36_SameSum ==
    /\ callA.pc = "done" => callA.ret = ClosedForm(arg)
    /\ callB.pc = "done" => callB.ret = ClosedForm(arg)
    /\ ReturnedC => callC[1].ret = ClosedForm(arg)
    /\ (callA.pc = "done" /\ callB.pc = "done" /\ ReturnedC)
       => callA.ret = callB.ret /\ callB.ret = callC[1].ret

\* the three functions have returned -15 for the argument -5
C36_Witness ==
    /\ arg = -MaxN
    /\ callA.pc = "done" /\ callB.pc = "done" /\ ReturnedC
    /\ callA.ret = -((MaxN * (MaxN + 1)) \div 2)
    /\ callB.ret = callA.ret
    /\ callC[1].ret = callA.ret

AllAtRest == \A p \in Procs : req[p].pc \in {"idle", "done"}

\* the positions of the leaderboard:update events socket s has received
Refreshes(s) ==
    {i \in DOMAIN inbox[s] : inbox[s][i].event = "leaderboard:update"}

LastRefresh(s) ==
    inbox[s][CHOOSE i \in Refreshes(s) : \A j \in Refreshes(s) : j <= i]

\* C38: once every score update has committed and its broadcast has been
\* delivered, a socket that is in the room and has received every event
\* emitted holds, in the last leaderboard:update it received, the present
\* top 10.
C38_LastRefreshIsCurrent ==
    AllAtRest =>
        \A s \in room :
            (inbox[s] = emitted /\ Refreshes(s) /= {}) =>
                LastRefresh(s).data.leaderboard
                    = getLeaderboard(leaderboard, TOP_TEN)

(***************************************************************************)
(* Properties of the rate limiter's window (SpecRate)                      *)
(***************************************************************************)
RateLimitKey == RateKey(RateUser)

\* the counter has a window: its key has a TTL
HasWindow(keys) ==
    RateLimitKey \in DOMAIN keys /\ keys[RateLimitKey].expireAt /= NoTTL

WindowEnd(keys) == keys[RateLimitKey].expireAt

Denials == {t \in DOMAIN rateLog : rateLog[t].denied > 0}

C40_StoredNamesNotBlank ==
    \A i \in DOMAIN resources : ~Blank(resources[i].name)

====
